---- MODULE Spec2Model ----
(***************************************************************************)
(* Model of the Confluence backend (packages/backend/confluence): the      *)
(* iris, spectrum and loom routers, each of which validates a request,     *)
(* runs an R script with subprocess.run and maps the outcome to an HTTP    *)
(* response.  The handlers are "async def" coroutines that call the        *)
(* blocking subprocess.run, so one handler occupies the event-loop thread  *)
(* from its first statement to its return.                                 *)
(***************************************************************************)
EXTENDS Integers, Sequences, FiniteSets, TLC

VARIABLES
    pc,           \* per request: "new", "pending", "active", "done"
    cur,          \* the frame of the handler that runs (or last ran) on the event loop
    responses,    \* per request: number of responses produced
    live,         \* children spawned and not yet reaped, each <<request, index>>
    prevDebug     \* the four checks and the flag of the previous /api/iris/debug report

vars == <<pc, cur, responses, live, prevDebug>>

----------------------------------------------------------------------------
(* Bounds of the model *)

NReq == 2
Req == 1..NReq

----------------------------------------------------------------------------
(* Program constants *)

MinSeriesLen == 4          \* spectrum.py: len(request.series) < 4
IrisPreviewLen == 200      \* iris.py: result.stdout[:200]
PreviewLen == 500          \* spectrum.py, loom.py: result.stdout[:500]
DebugPreviewLen == 200     \* iris.py: test_result.stdout[:200]

DataEndpoints ==
    {"iris_data", "spectrum_analyze", "spectrum_demo", "loom_generate", "loom_demo"}

R_SCRIPT_PATH(site) ==
    CASE site = "iris" -> "r_scripts/iris_transform.R"
      [] site = "spectrum" -> "r_scripts/spectral_analysis.R"
      [] site = "loom" -> "r_scripts/loom_generators.R"
      [] OTHER -> ""

valid_systems == <<"lorenz", "automaton", "fibonacci", "clifford">>

----------------------------------------------------------------------------
(* Texts.  A text is [s, n]: the first n characters of the text named s.   *)
(* The fixed message texts of the code are written Lit(s); their length is *)
(* not tracked.  Slicing keeps the name and bounds the length.             *)

Lit(s) == [s |-> s, n |-> 0]
Raw(s, n) == [s |-> s, n |-> n]
EmptyText == Raw("", 0)
Min(a, b) == IF a < b THEN a ELSE b
Slice(t, k) == [s |-> t.s, n |-> Min(t.n, k)]        \* t[:k]
Truthy(t) == t.n > 0                                 \* bool(str)

(* Option values: None is the empty tuple, Some(x) the one-element tuple. *)
None == <<>>
Some(x) == <<x>>
IsNone(o) == o = <<>>
The(o) == o[1]

Range(f) == {f[i] : i \in DOMAIN f}

----------------------------------------------------------------------------
(* JSON values as the handlers see them: the type json.loads gives, the    *)
(* value of the "error" key and of the "message" key of a dict.            *)

JDict(error, message) == [type |-> "dict", error |-> error, message |-> message]
JList == [type |-> "list", error |-> "absent", message |-> None]
JNaN == [type |-> "float_nan", error |-> "absent", message |-> None]
NoJson == [type |-> "none", error |-> "absent", message |-> None]

(* The texts a child may leave on its standard output. *)
OutObj == Raw("{\"a\": 1}", 8)
OutErrMsg == Raw("{\"error\": true, \"message\": \"boom\"}", 35)
OutErrNoMsg == Raw("{\"error\": true}", 15)
OutErrFalse == Raw("{\"error\": false, \"message\": \"boom\"}", 36)
OutList == Raw("[{\"error\": true}]", 17)
OutNaN == Raw("NaN", 3)
OutNotJson == Raw("not-json", 8)
OutLongNotJson(n) == Raw("not-json not-json ...", n)
OutLongObj == Raw("{\"waves\": [0.1, 0.2, ...]}", DebugPreviewLen + 1)

JsonTexts == {OutObj, OutErrMsg, OutErrNoMsg, OutErrFalse, OutList, OutNaN, OutLongObj}
NotJsonTexts ==
    {EmptyText, OutNotJson, OutLongNotJson(IrisPreviewLen + 1), OutLongNotJson(PreviewLen + 1)}
StdoutTexts == JsonTexts \cup NotJsonTexts
ErrText == Raw("Error in library(jsonlite)", 26)
StderrTexts == {EmptyText, ErrText}

(* json.loads(text): the parsed value, or JSONDecodeError with str(e).     *)
(* Python's parser accepts the constant NaN.                               *)
json_loads(t) ==
    CASE t = OutObj -> [ok |-> TRUE, data |-> JDict("absent", None), reason |-> EmptyText]
      [] t = OutLongObj -> [ok |-> TRUE, data |-> JDict("absent", None), reason |-> EmptyText]
      [] t = OutErrMsg -> [ok |-> TRUE, data |-> JDict("true", Some("boom")), reason |-> EmptyText]
      [] t = OutErrNoMsg -> [ok |-> TRUE, data |-> JDict("true", None), reason |-> EmptyText]
      [] t = OutErrFalse -> [ok |-> TRUE, data |-> JDict("false", Some("boom")), reason |-> EmptyText]
      [] t = OutList -> [ok |-> TRUE, data |-> JList, reason |-> EmptyText]
      [] t = OutNaN -> [ok |-> TRUE, data |-> JNaN, reason |-> EmptyText]
      [] OTHER -> [ok |-> FALSE, data |-> NoJson,
                   reason |-> Lit("Expecting value: line 1 column 1 (char 0)")]

(* Whether the text is a JSON document by the JSON grammar (no NaN). *)
IsJsonText(t) == json_loads(t).ok /\ json_loads(t).data.type # "float_nan"

----------------------------------------------------------------------------
(* What subprocess.run gives back: a CompletedProcess, or an exception.    *)

Completed(rc, out, err) ==
    [kind |-> "completed", returncode |-> rc, stdout |-> out, stderr |-> err]
TimeoutExpired(out, err) ==
    [kind |-> "TimeoutExpired", returncode |-> -9, stdout |-> out, stderr |-> err]
FileNotFoundError ==
    [kind |-> "FileNotFoundError", returncode |-> 0, stdout |-> EmptyText, stderr |-> EmptyText]
NoResult ==
    [kind |-> "none", returncode |-> 0, stdout |-> EmptyText, stderr |-> EmptyText]

(* How a child running a data script can end within the timeout: exit 0    *)
(* with any text on standard output (and perhaps warnings on standard      *)
(* error), or a non-zero exit with or without text on either stream.       *)
DataResults ==
    {Completed(0, out, EmptyText) : out \in StdoutTexts}
      \cup {Completed(0, OutObj, ErrText)}
      \cup {Completed(1, out, err) : out \in {EmptyText, OutObj}, err \in StderrTexts}

(* What the try block of a handler ends with: a JSONResponse, or an        *)
(* exception on its way to the except clauses.  preview is what the block  *)
(* wrote to the log as "R output preview".                                 *)
Return(data) ==
    [kind |-> "return", exc |-> "none", status |-> 200, detail |-> <<>>,
     body |-> data, preview |-> <<>>]
RaiseHTTP(status, detail, preview) ==
    [kind |-> "raise", exc |-> "HTTPException", status |-> status, detail |-> detail,
     body |-> NoJson, preview |-> preview]
RaiseExc(name, message) ==
    [kind |-> "raise", exc |-> name, status |-> 0, detail |-> message,
     body |-> NoJson, preview |-> <<>>]

(* str(e) of the exception the except clause holds.  HTTPException prints  *)
(* as "<status_code>: <detail>".                                           *)
StatusText(status) ==
    CASE status = 400 -> Lit("400: ")
      [] status = 500 -> Lit("500: ")
      [] status = 504 -> Lit("504: ")
      [] OTHER -> Lit("?: ")
StrOfException(o) ==
    IF o.exc = "HTTPException" THEN <<StatusText(o.status)>> \o o.detail ELSE o.detail

(* A faulty JSONResponse: it answers an envelope with its own "error" flag *)
(* in place of the value it was given.                                     *)
JSONResponse_Enveloped(data) ==
    IF data.type = "float_nan"
      THEN RaiseExc("ValueError", <<Lit("Out of range float values are not JSON compliant")>>)
      ELSE Return([data EXCEPT !.type = "dict", !.error = "false"])

(* JSONResponse(content=data): renders with allow_nan=False, so a NaN      *)
(* raises ValueError; any other value is the body as parsed.               *)
JSONResponse(data) ==
    IF data.type = "float_nan"
      THEN RaiseExc("ValueError", <<Lit("Out of range float values are not JSON compliant")>>)
      ELSE Return(data)

(* The exception subprocess.run raised, as the try block passes it on. *)
RunRaised(result) ==
    IF result.kind = "FileNotFoundError"
      THEN RaiseExc("FileNotFoundError", <<Lit("[Errno 2] No such file or directory: 'Rscript'")>>)
      ELSE RaiseExc("TimeoutExpired", <<Lit("Command timed out")>>)

(* error_msg = result.stderr or "Unknown R error" *)
ErrorMsg(result) == IF Truthy(result.stderr) THEN result.stderr ELSE Lit("Unknown R error")

(* data.get('message', 'Unknown error') *)
MessageOf(data) == IF IsNone(data.message) THEN Lit("Unknown error") ELSE Lit(The(data.message))

(* isinstance(data, dict) and data.get("error") *)
IsInbandError(data) == data.type = "dict" /\ data.error = "true"

ExecFailed(result) ==
    RaiseHTTP(500, <<Lit("R script execution failed: "), ErrorMsg(result)>>, <<>>)
(* A faulty parse-failure response: the parser's reason is left out. *)
ParseFailed_NoReason(reason, preview) ==
    RaiseHTTP(500, <<Lit("Failed to parse R output as JSON: ")>>, preview)

ParseFailed(reason, preview) ==
    RaiseHTTP(500, <<Lit("Failed to parse R output as JSON: "), reason>>, preview)
InbandFailed(data) ==
    RaiseHTTP(500, <<Lit("R script error: "), MessageOf(data)>>, <<>>)
(* A faulty timeout response: a plain server fault. *)
TimedOut_As500 ==
    RaiseHTTP(500, <<Lit("R script execution timed out after 30 seconds")>>, <<>>)

TimedOut504 ==
    RaiseHTTP(504, <<Lit("R script execution timed out after 30 seconds")>>, <<>>)
NotInstalled500 ==
    RaiseHTTP(500, <<Lit("Rscript command not found. Is R installed?")>>, <<>>)
(* A faulty last clause: an HTTPException passes through as raised. *)
Unexpected500_HTTPPassesThrough(prefix, o) ==
    IF o.exc = "HTTPException"
      THEN o
      ELSE RaiseHTTP(500, <<Lit(prefix)>> \o StrOfException(o), o.preview)

Unexpected500(prefix, o) ==
    RaiseHTTP(500, <<Lit(prefix)>> \o StrOfException(o), o.preview)
ScriptMissing500(site) ==
    RaiseHTTP(500, <<Lit("R script not found at "), Lit(R_SCRIPT_PATH(site))>>, <<>>)

----------------------------------------------------------------------------
(* Request bodies.  A missing or null sequence is None; sample_rate and    *)
(* n_peaks are "absent", "null" or a number, written as the client wrote   *)
(* it.                                                                     *)

SeriesOfLen(n) == [i \in 1..n |-> i]
SeriesValues == {Some(SeriesOfLen(MinSeriesLen - 1)), Some(SeriesOfLen(MinSeriesLen))}
SeriesFields == {None} \cup SeriesValues

NoBody ==
    [series |-> None, series1 |-> None, series2 |-> None,
     sample_rate |-> "absent", n_peaks |-> "absent", system |-> "", params |-> "absent"]

(* Every combination of the three sequences with sample_rate and n_peaks   *)
(* left out, and the two well-formed requests with them null or given.     *)
SpectrumBodies ==
    {[NoBody EXCEPT !.series = s, !.series1 = s1, !.series2 = s2] :
        s \in SeriesFields, s1 \in SeriesFields, s2 \in SeriesFields}
    \cup
    {[NoBody EXCEPT !.series = ss[1], !.series1 = ss[2], !.series2 = ss[2],
                    !.sample_rate = opt[1], !.n_peaks = opt[2]] :
        ss \in {<<Some(SeriesOfLen(MinSeriesLen)), None>>,
                <<None, Some(SeriesOfLen(MinSeriesLen))>>},
        opt \in {<<"null", "null">>, <<"44100.0", "3">>, <<"2", "3.0">>}}

LoomBodies ==
    {[NoBody EXCEPT !.system = sys, !.params = ps] :
        sys \in Range(valid_systems) \cup {"quantum"},
        ps \in {"absent", "null", "{}", "{\"n\": 100}"}}

(* class SpectrumRequest(BaseModel): a field the client left out takes the *)
(* declared default; an explicit null stays None.                          *)
FieldOrDefault(given, default) ==
    CASE given = "absent" -> Some(default)
      [] given = "null" -> None
      [] OTHER -> Some(given)
(* Optional[float] and Optional[int]: the validator turns the number the   *)
(* client wrote into a float or an int; json.dumps writes it as such.      *)
ToFloat(given) == IF given = "2" THEN "2.0" ELSE given
ToInt(given) == IF given = "3.0" THEN "3" ELSE given
SpectrumRequest(body) ==
    [series |-> body.series, series1 |-> body.series1, series2 |-> body.series2,
     sample_rate |-> FieldOrDefault(ToFloat(body.sample_rate), "1.0"),
     n_peaks |-> FieldOrDefault(ToInt(body.n_peaks), "8")]

(* class LoomRequest(BaseModel) *)
LoomRequest(body) ==
    [system |-> body.system,
     params |-> IF body.params \in {"absent", "null"} THEN None ELSE Some(body.params)]

(* The dict json.dumps writes to the child's standard input. *)
NoInput ==
    [keys |-> {}, series |-> None, series1 |-> None, series2 |-> None,
     sample_rate |-> None, n_peaks |-> None, system |-> "", params |-> ""]

(* What the part of a handler before its try block decides. *)
Invoke(input) ==
    [kind |-> "invoke", status |-> 0, detail |-> <<>>, input |-> input]
Reject(o) ==
    [kind |-> "raise", status |-> o.status, detail |-> o.detail, input |-> None]

BadRequest(text) == RaiseHTTP(400, <<Lit(text)>>, <<>>)

TooShort(field) == (~IsNone(field)) /\ Len(The(field)) < MinSeriesLen

----------------------------------------------------------------------------
(* GET /api/iris/data *)

get_iris_data_pre(exists) ==
    IF ~exists THEN Reject(ScriptMissing500("iris")) ELSE Invoke(None)

get_iris_data_try(result) ==
    IF result.kind # "completed" THEN RunRaised(result)
    ELSE IF result.returncode # 0 THEN ExecFailed(result)
    ELSE LET p == json_loads(result.stdout) IN
         IF ~p.ok THEN ParseFailed(p.reason, <<Slice(result.stdout, IrisPreviewLen)>>)
         ELSE JSONResponse(p.data)

get_iris_data_except(o) ==
    CASE o.kind = "return" -> o
      [] o.exc = "TimeoutExpired" -> TimedOut504
      [] o.exc = "FileNotFoundError" -> NotInstalled500
      [] OTHER -> Unexpected500("Unexpected error during iris transformation: ", o)

----------------------------------------------------------------------------
(* POST /api/spectrum/analyze *)

analyze_spectrum_validate(request) ==
    IF IsNone(request.series) /\ (IsNone(request.series1) \/ IsNone(request.series2))
      THEN Some(BadRequest("Must provide either 'series' or both 'series1' and 'series2'"))
    ELSE IF TooShort(request.series)
      THEN Some(BadRequest("Series must contain at least 4 data points for FFT"))
    ELSE IF TooShort(request.series1)
      THEN Some(BadRequest("Series1 must contain at least 4 data points for FFT"))
    ELSE IF TooShort(request.series2)
      THEN Some(BadRequest("Series2 must contain at least 4 data points for FFT"))
    ELSE None

(* A faulty payload: every series key is written, null when not supplied. *)
analyze_spectrum_input_AllKeys(request) ==
    [NoInput EXCEPT
        !.keys = {"series", "series1", "series2", "sample_rate", "n_peaks"},
        !.series = request.series, !.series1 = request.series1,
        !.series2 = request.series2,
        !.sample_rate = request.sample_rate, !.n_peaks = request.n_peaks]

analyze_spectrum_input(request) ==
    [NoInput EXCEPT
        !.keys = {k \in {"series", "series1", "series2"} : ~IsNone(request[k])}
                    \cup {"sample_rate", "n_peaks"},
        !.series = request.series, !.series1 = request.series1,
        !.series2 = request.series2,
        !.sample_rate = request.sample_rate, !.n_peaks = request.n_peaks]

analyze_spectrum_pre(body, exists) ==
    LET request == SpectrumRequest(body)
        invalid == analyze_spectrum_validate(request) IN
    IF ~exists THEN Reject(ScriptMissing500("spectrum"))
    ELSE IF ~IsNone(invalid) THEN Reject(The(invalid))
    ELSE Invoke(Some(analyze_spectrum_input(request)))

analyze_spectrum_try(result) ==
    IF result.kind # "completed" THEN RunRaised(result)
    ELSE IF result.returncode # 0 THEN ExecFailed(result)
    ELSE LET p == json_loads(result.stdout) IN
         IF ~p.ok THEN ParseFailed(p.reason, <<Slice(result.stdout, PreviewLen)>>)
         ELSE IF IsInbandError(p.data) THEN InbandFailed(p.data)
         ELSE JSONResponse(p.data)

analyze_spectrum_except(o) ==
    CASE o.kind = "return" -> o
      [] o.exc = "TimeoutExpired" -> TimedOut504
      [] o.exc = "FileNotFoundError" -> NotInstalled500
      [] OTHER -> Unexpected500("Unexpected error during spectral analysis: ", o)

----------------------------------------------------------------------------
(* GET /api/spectrum/demo *)

demo_spectrum_pre(exists) ==
    IF ~exists THEN Reject(ScriptMissing500("spectrum")) ELSE Invoke(None)

demo_spectrum_try(result) ==
    IF result.kind # "completed" THEN RunRaised(result)
    ELSE IF result.returncode # 0 THEN ExecFailed(result)
    ELSE LET p == json_loads(result.stdout) IN
         IF ~p.ok THEN ParseFailed(p.reason, <<>>)
         ELSE JSONResponse(p.data)

demo_spectrum_except(o) ==
    CASE o.kind = "return" -> o
      [] o.exc = "TimeoutExpired" -> TimedOut504
      [] OTHER -> Unexpected500("Unexpected error during demo analysis: ", o)

----------------------------------------------------------------------------
(* POST /api/loom/generate *)

generate_loom_input(request) ==
    [NoInput EXCEPT
        !.keys = {"system", "params"},
        !.system = request.system,
        !.params = IF IsNone(request.params) \/ request.params = Some("{}")
                     THEN "{}" ELSE The(request.params)]

generate_loom_pre(body, exists) ==
    LET request == LoomRequest(body) IN
    IF ~exists THEN Reject(ScriptMissing500("loom"))
    ELSE IF request.system \notin Range(valid_systems)
      THEN Reject(BadRequest(
             "Invalid system. Must be one of: lorenz, automaton, fibonacci, clifford"))
    ELSE Invoke(Some(generate_loom_input(request)))

generate_loom_try(result) ==
    IF result.kind # "completed" THEN RunRaised(result)
    ELSE IF result.returncode # 0 THEN ExecFailed(result)
    ELSE LET p == json_loads(result.stdout) IN
         IF ~p.ok THEN ParseFailed(p.reason, <<Slice(result.stdout, PreviewLen)>>)
         ELSE IF IsInbandError(p.data) THEN InbandFailed(p.data)
         ELSE JSONResponse(p.data)

generate_loom_except(o) ==
    CASE o.kind = "return" -> o
      [] o.exc = "TimeoutExpired" -> TimedOut504
      [] o.exc = "FileNotFoundError" -> NotInstalled500
      [] OTHER -> Unexpected500("Unexpected error during loom generation: ", o)

----------------------------------------------------------------------------
(* GET /api/loom/demo *)

demo_loom_pre(exists) ==
    IF ~exists THEN Reject(ScriptMissing500("loom")) ELSE Invoke(None)

demo_loom_try(result) ==
    IF result.kind # "completed" THEN RunRaised(result)
    ELSE IF result.returncode # 0 THEN ExecFailed(result)
    ELSE LET p == json_loads(result.stdout) IN
         IF ~p.ok THEN ParseFailed(p.reason, <<>>)
         ELSE JSONResponse(p.data)

demo_loom_except(o) ==
    CASE o.kind = "return" -> o
      [] o.exc = "TimeoutExpired" -> TimedOut504
      [] OTHER -> Unexpected500("Unexpected error during demo generation: ", o)

----------------------------------------------------------------------------
(* The handler of each data-producing endpoint, by its three parts. *)

PreOf(ep, body, exists) ==
    CASE ep = "iris_data" -> get_iris_data_pre(exists)
      [] ep = "spectrum_analyze" -> analyze_spectrum_pre(body, exists)
      [] ep = "spectrum_demo" -> demo_spectrum_pre(exists)
      [] ep = "loom_generate" -> generate_loom_pre(body, exists)
      [] ep = "loom_demo" -> demo_loom_pre(exists)

TryOf(ep, result) ==
    CASE ep = "iris_data" -> get_iris_data_try(result)
      [] ep = "spectrum_analyze" -> analyze_spectrum_try(result)
      [] ep = "spectrum_demo" -> demo_spectrum_try(result)
      [] ep = "loom_generate" -> generate_loom_try(result)
      [] ep = "loom_demo" -> demo_loom_try(result)

ExceptOf(ep, o) ==
    CASE ep = "iris_data" -> get_iris_data_except(o)
      [] ep = "spectrum_analyze" -> analyze_spectrum_except(o)
      [] ep = "spectrum_demo" -> demo_spectrum_except(o)
      [] ep = "loom_generate" -> generate_loom_except(o)
      [] ep = "loom_demo" -> demo_loom_except(o)

----------------------------------------------------------------------------
(* The diagnostic endpoints of the iris router.  A report is the dict the  *)
(* handler returns; keys holds the keys it has set, checks the checks it   *)
(* has carried out, in order.                                              *)

NoReport ==
    [keys |-> {}, checks |-> <<>>,
     r_script_exists |-> FALSE, r_installed |-> FALSE, r_version |-> None,
     jsonlite_installed |-> FALSE,
     test_execution_success |-> FALSE, test_output_valid_json |-> FALSE,
     test_output_preview |-> None, test_error |-> None,
     pipeline_ready |-> FALSE,
     r_available |-> FALSE, version |-> None, status |-> ""]

VersionText == Raw("Rscript (R) version 4.3.1 (2023-06-16)\n", 40)
VersionLine == Raw("Rscript (R) version 4.3.1 (2023-06-16)", 39)
OkText == Raw("OK", 2)

(* text.strip().split('\n')[0] *)
FirstLine(t) == IF t = VersionText THEN VersionLine ELSE t

(* What the version probe, the jsonlite probe and the trial run can give. *)
VersionResults ==
    {Completed(0, EmptyText, VersionText), Completed(0, VersionText, EmptyText),
     Completed(1, EmptyText, ErrText),
     TimeoutExpired(EmptyText, EmptyText)}
JsonliteResults ==
    {Completed(0, OkText, EmptyText), Completed(0, EmptyText, EmptyText),
     Completed(1, EmptyText, ErrText),
     TimeoutExpired(EmptyText, EmptyText)}
TrialResults ==
    {Completed(0, OutObj, EmptyText), Completed(0, OutLongObj, EmptyText),
     Completed(0, OutNotJson, EmptyText),
     Completed(1, EmptyText, ErrText),
     Completed(1, OutObj, EmptyText),
     TimeoutExpired(EmptyText, EmptyText)}

(* A faulty availability test: a probe that raises is reported as success. *)
test_r_availability_Optimistic(result) ==
    [NoReport EXCEPT !.keys = {"r_available", "version", "status"},
                     !.r_available = (result.kind # "completed" \/ result.returncode = 0),
                     !.version = Some(Lit("unknown")),
                     !.status = "R engine operational"]

(* GET /api/iris/test *)
test_r_availability(result) ==
    CASE result.kind = "completed" /\ result.returncode = 0 ->
           [NoReport EXCEPT !.keys = {"r_available", "version", "status"},
                            !.r_available = TRUE,
                            !.version = IF Truthy(FirstLine(result.stderr))
                                          THEN Some(FirstLine(result.stderr))
                                          ELSE Some(Lit("unknown")),
                            !.status = "R engine operational"]
      [] result.kind = "completed" /\ result.returncode # 0 ->
           [NoReport EXCEPT !.keys = {"r_available", "version", "status", "error"},
                            !.status = "R command failed"]
      [] result.kind = "FileNotFoundError" ->
           [NoReport EXCEPT !.keys = {"r_available", "version", "status"},
                            !.status = "Rscript command not found - R may not be installed"]
      [] OTHER ->
           [NoReport EXCEPT !.keys = {"r_available", "version", "status"},
                            !.status = "Error testing R: "]

(* GET /api/iris/debug, step 1: the script path and its existence *)
debug_check_script(exists) ==
    [NoReport EXCEPT
        !.keys = {"r_script_path", "r_script_exists", "r_script_absolute_path"},
        !.checks = <<"script_exists">>,
        !.r_script_exists = exists]

(* step 2: Rscript --version *)
debug_check_r(d, result) ==
    LET done == [d EXCEPT !.checks = Append(d.checks, "version_probe"),
                          !.keys = d.keys \cup {"r_installed", "r_version"}] IN
    CASE result.kind = "completed" ->
           [done EXCEPT !.r_installed = (result.returncode = 0),
                        !.r_version = IF result.returncode = 0
                                        THEN Some(FirstLine(result.stderr)) ELSE None]
      [] result.kind = "FileNotFoundError" -> done
      [] OTHER -> [done EXCEPT !.keys = done.keys \cup {"r_check_error"}]

(* step 3: Rscript -e "library(jsonlite); cat('OK')" *)
debug_check_jsonlite(d, result) ==
    LET done == [d EXCEPT !.checks = Append(d.checks, "jsonlite_probe"),
                          !.keys = d.keys \cup {"jsonlite_installed"}] IN
    IF result.kind = "completed"
      THEN [done EXCEPT !.jsonlite_installed =
                            (result.returncode = 0 /\ result.stdout = OkText)]
      ELSE [done EXCEPT !.keys = done.keys \cup {"jsonlite_check_error"}]

(* A faulty condition: step 4 is attempted whatever came before. *)
debug_runs_trial_Always(d) == TRUE

(* step 4 is attempted only if the script exists and R is installed *)
debug_runs_trial(d) == d.r_script_exists /\ d.r_installed

(* test_result.stdout[:200] + "..." if len(test_result.stdout) > 200 else test_result.stdout *)
debug_preview(out) ==
    IF out.n > DebugPreviewLen
      THEN Raw(out.s, DebugPreviewLen + 3)
      ELSE out

(* step 4: the trial execution of the script, taken *)
debug_trial(d, result) ==
    LET done == [d EXCEPT !.checks = Append(d.checks, "trial_execution")] IN
    CASE result.kind = "completed" /\ result.returncode = 0 ->
           [done EXCEPT
              !.keys = done.keys \cup {"test_execution_returncode", "test_execution_success",
                                       "test_output_valid_json", "test_output_preview"},
              !.test_execution_success = TRUE,
              !.test_output_valid_json = json_loads(result.stdout).ok,
              !.test_output_preview =
                  IF json_loads(result.stdout).ok
                    THEN Some(debug_preview(result.stdout))
                    ELSE Some(Slice(result.stdout, DebugPreviewLen))]
      [] result.kind = "completed" /\ result.returncode # 0 ->
           [done EXCEPT
              !.keys = done.keys \cup {"test_execution_returncode", "test_execution_success",
                                       "test_output_valid_json", "test_error",
                                       "test_output_preview"},
              !.test_error = Some(result.stderr),
              !.test_output_preview =
                  IF Truthy(result.stdout)
                    THEN Some(Slice(result.stdout, DebugPreviewLen)) ELSE None]
      [] result.kind = "TimeoutExpired" ->
           [done EXCEPT
              !.keys = done.keys \cup {"test_execution_success", "test_error"},
              !.test_error = Some(Lit("Execution timed out after 10 seconds"))]
      [] OTHER ->
           [done EXCEPT
              !.keys = done.keys \cup {"test_execution_success", "test_error"},
              !.test_error = Some(Lit("[Errno 2] No such file or directory: 'Rscript'"))]

(* step 4, not taken *)
debug_no_trial(d) ==
    [d EXCEPT
       !.keys = d.keys \cup {"test_execution_success", "test_error"},
       !.test_error =
           Some(Lit("Cannot test - script doesn't exist or R not installed"))]

(* A faulty overall status: the jsonlite check is left out. *)
pipeline_ready_NoJsonlite(d) ==
    /\ d.r_script_exists
    /\ d.r_installed
    /\ ("test_execution_success" \in d.keys /\ d.test_execution_success)

(* step 5: the overall status *)
pipeline_ready(d) ==
    /\ d.r_script_exists
    /\ d.r_installed
    /\ ("jsonlite_installed" \in d.keys /\ d.jsonlite_installed)
    /\ ("test_execution_success" \in d.keys /\ d.test_execution_success)

debug_overall(d) ==
    [d EXCEPT !.keys = d.keys \cup {"pipeline_ready"},
              !.pipeline_ready = pipeline_ready(d)]

----------------------------------------------------------------------------
(* The loom catalog.  Numbers are written in thousandths, so that 0.001 is *)
(* 1 and 10000 is 10000000: the order of the values is kept.               *)

Param(type, default, min, max) ==
    [type |-> type, default |-> default, min |-> min, max |-> max]

(* GET /api/loom/health: "systems" *)
loom_health_systems == <<"lorenz", "automaton", "fibonacci", "clifford">>

(* A faulty catalog: the default of dt lies above its max, and clifford is *)
(* missing.                                                                *)
systems_OutOfBounds ==
    << [id |-> "lorenz", category |-> "chaos",
        params |-> [n |-> Param("int", 2000000, 100000, 10000000),
                    dt |-> Param("float", 1000, 1, 100)]],
       [id |-> "automaton", category |-> "discrete",
        params |-> [rule |-> Param("int", 110000, 0, 255000)]],
       [id |-> "fibonacci", category |-> "harmony",
        params |-> [n |-> Param("int", 144000, 10000, 500000)]] >>

(* GET /api/loom/systems: systems *)
systems ==
    << [id |-> "lorenz", category |-> "chaos",
        params |-> [n |-> Param("int", 2000000, 100000, 10000000),
                    dt |-> Param("float", 10, 1, 100),
                    sigma |-> Param("float", 10000, 1000, 20000),
                    rho |-> Param("float", 28000, 1000, 50000),
                    beta |-> Param("float", 2667, 500, 5000)]],
       [id |-> "automaton", category |-> "discrete",
        params |-> [rule |-> Param("int", 110000, 0, 255000),
                    width |-> Param("int", 64000, 16000, 128000),
                    generations |-> Param("int", 64000, 16000, 128000)]],
       [id |-> "fibonacci", category |-> "harmony",
        params |-> [n |-> Param("int", 144000, 10000, 500000)]],
       [id |-> "clifford", category |-> "strange",
        params |-> [n |-> Param("int", 5000000, 100000, 20000000),
                    a |-> Param("float", -1400, -3000, 3000),
                    b |-> Param("float", 1600, -3000, 3000),
                    c |-> Param("float", 1000, -3000, 3000),
                    d |-> Param("float", 700, -3000, 3000)]] >>

----------------------------------------------------------------------------
(* The state machine.                                                      *)

(* A child is named by the request whose handler spawned it and its index  *)
(* among that handler's children: every subprocess.run makes a new Popen.  *)
NoChild == <<0, 0>>

(* The frame of a handler: its request, what it has seen and done so far   *)
(* (calls: subprocess.run calls; spawned: children started; dataRuns:      *)
(* children started with an R script as argument; pipes: the pipes to its  *)
(* child that the handler's process holds open) and what it answers.       *)
NoFrame ==
    [rid |-> 0, ep |-> "", stage |-> "idle", body |-> NoBody, exists |-> FALSE,
     input |-> None, calls |-> 0, spawned |-> 0, dataRuns |-> 0,
     child |-> NoChild, pipes |-> {}, killed |-> FALSE, result |-> NoResult,
     status |-> 0, detail |-> <<>>, content |-> NoJson, preview |-> <<>>,
     report |-> NoReport, catalog |-> <<>>, listed |-> <<>>]

NoDebug == [seen |-> FALSE, checks |-> <<FALSE, FALSE, FALSE, FALSE>>, ready |-> FALSE]

Init ==
    /\ pc = [r \in Req |-> "new"]
    /\ cur = NoFrame
    /\ responses = [r \in Req |-> 0]
    /\ live = {}
    /\ prevDebug = NoDebug

(* The handlers are coroutines on one event-loop thread and none of them   *)
(* awaits: a handler that has started holds the thread until it returns.   *)
LoopFree == cur.stage \in {"idle", "responded"}

(* A client sends a request; it waits in the socket until the loop reads   *)
(* it.  Requests are numbered in the order they arrive.                    *)
Arrive(r) ==
    /\ pc[r] = "new"
    /\ \A q \in Req : q < r => pc[q] # "new"
    /\ pc' = [pc EXCEPT ![r] = "pending"]
    /\ UNCHANGED <<cur, responses, live, prevDebug>>

(* The handler returns or raises: the framework sends the one response. *)
Responded(r, frame) ==
    /\ cur' = [frame EXCEPT !.stage = "responded"]
    /\ pc' = [pc EXCEPT ![r] = "done"]
    /\ responses' = [responses EXCEPT ![r] = @ + 1]

(* subprocess.run(["Rscript", ...]) is called: Popen starts a new child,   *)
(* or raises FileNotFoundError when Rscript is not on the PATH.            *)
(* capture_output=True makes a pipe for stdout and one for stderr, and     *)
(* input=... one for stdin.                                                *)
PipesOf(frame) ==
    {"stdout", "stderr"} \cup (IF IsNone(frame.input) THEN {} ELSE {"stdin"})

Called(frame, found, script) ==
    IF found
      THEN [frame EXCEPT !.calls = @ + 1, !.spawned = @ + 1,
                         !.dataRuns = @ + (IF script THEN 1 ELSE 0),
                         !.child = <<frame.rid, frame.spawned + 1>>,
                         !.pipes = PipesOf(frame)]
      ELSE [frame EXCEPT !.calls = @ + 1, !.result = FileNotFoundError]

(* A data-producing handler from its first statement to its call of        *)
(* subprocess.run, where the thread blocks until the child is done.        *)
(* The file system and the PATH are outside the service and may change at  *)
(* any time: exists is what R_SCRIPT_PATH.exists() answers this time,      *)
(* found whether Rscript is on the PATH when Popen looks for it.           *)
DataBegin(r, ep, body, exists, found) ==
    /\ pc[r] = "pending"
    /\ LoopFree
    /\ LET pre == PreOf(ep, body, exists)
           frame == [NoFrame EXCEPT !.rid = r, !.ep = ep, !.body = body,
                                    !.exists = exists, !.input = pre.input]
           called == Called(frame, found, TRUE) IN
       IF pre.kind = "raise"
         THEN /\ Responded(r, [frame EXCEPT !.status = pre.status, !.detail = pre.detail])
              /\ UNCHANGED live
         ELSE /\ pc' = [pc EXCEPT ![r] = "active"]
              /\ UNCHANGED responses
              /\ IF found
                   THEN /\ cur' = [called EXCEPT !.stage = "waiting"]
                        /\ live' = live \cup {called.child}
                   ELSE /\ cur' = [called EXCEPT !.stage = "returned"]
                        /\ UNCHANGED live
    /\ UNCHANGED prevDebug

get_iris_data(r) ==
    \E exists \in BOOLEAN, found \in BOOLEAN :
       DataBegin(r, "iris_data", NoBody, exists, found)
analyze_spectrum(r) ==
    \E body \in SpectrumBodies, exists \in BOOLEAN, found \in BOOLEAN :
       DataBegin(r, "spectrum_analyze", body, exists, found)
demo_spectrum(r) ==
    \E exists \in BOOLEAN, found \in BOOLEAN :
       DataBegin(r, "spectrum_demo", NoBody, exists, found)
generate_loom(r) ==
    \E body \in LoomBodies, exists \in BOOLEAN, found \in BOOLEAN :
       DataBegin(r, "loom_generate", body, exists, found)
demo_loom(r) ==
    \E exists \in BOOLEAN, found \in BOOLEAN :
       DataBegin(r, "loom_demo", NoBody, exists, found)

(* The child exits within the timeout: communicate() has read both pipes   *)
(* to their end, the pipes are closed and the child is reaped.             *)
ChildExits ==
    /\ cur.stage = "waiting"
    /\ \E result \in DataResults :
          cur' = [cur EXCEPT !.stage = "returned", !.result = result, !.pipes = {}]
    /\ live' = live \ {cur.child}
    /\ UNCHANGED <<pc, responses, prevDebug>>

(* A faulty timeout: TimeoutExpired is raised and the child is left to run *)
(* with its pipes open.                                                    *)
ChildTimesOut_Abandoned ==
    /\ cur.stage = "waiting"
    /\ \E out \in {EmptyText, OutObj} :
          cur' = [cur EXCEPT !.stage = "returned",
                             !.result = TimeoutExpired(out, EmptyText)]
    /\ UNCHANGED <<pc, responses, live, prevDebug>>

(* The timeout expires first: subprocess.run kills the child, waits for it *)
(* and raises TimeoutExpired, which carries what had been read so far; on  *)
(* the way out the pipes are closed.                                       *)
ChildTimesOut ==
    /\ cur.stage = "waiting"
    /\ \E out \in {EmptyText, OutObj} :
          cur' = [cur EXCEPT !.stage = "returned", !.killed = TRUE, !.pipes = {},
                             !.result = TimeoutExpired(out, EmptyText)]
    /\ live' = live \ {cur.child}
    /\ UNCHANGED <<pc, responses, prevDebug>>

(* The rest of the handler: the try block after subprocess.run and the     *)
(* except clauses.                                                         *)
HandlerOutcome(ep, result) == ExceptOf(ep, TryOf(ep, result))

(* A faulty handler: after a non-zero exit it runs the script once more. *)
DataFinish_Retry ==
    /\ cur.stage = "returned"
    /\ IF cur.result.kind = "completed" /\ cur.result.returncode # 0 /\ cur.calls < 2
         THEN /\ cur' = [Called(cur, TRUE, TRUE) EXCEPT !.stage = "waiting",
                                                        !.result = NoResult]
              /\ live' = live \cup {<<cur.rid, cur.spawned + 1>>}
              /\ UNCHANGED <<pc, responses>>
         ELSE /\ LET o == HandlerOutcome(cur.ep, cur.result) IN
                   Responded(cur.rid, [cur EXCEPT !.status = o.status, !.detail = o.detail,
                                                  !.content = o.body, !.preview = o.preview])
              /\ UNCHANGED live
    /\ UNCHANGED prevDebug

DataFinish ==
    /\ cur.stage = "returned"
    /\ LET o == HandlerOutcome(cur.ep, cur.result) IN
         Responded(cur.rid, [cur EXCEPT !.status = o.status, !.detail = o.detail,
                                        !.content = o.body, !.preview = o.preview])
    /\ UNCHANGED <<live, prevDebug>>

(* GET /health: a constant document. *)
health(r) ==
    /\ pc[r] = "pending"
    /\ LoopFree
    /\ Responded(r, [NoFrame EXCEPT !.rid = r, !.ep = "health", !.status = 200])
    /\ UNCHANGED <<live, prevDebug>>

(* GET /api/loom/health: a constant document and whether the script exists. *)
loom_health(r) ==
    /\ pc[r] = "pending"
    /\ LoopFree
    /\ \E exists \in BOOLEAN :
          Responded(r, [NoFrame EXCEPT !.rid = r, !.ep = "loom_health", !.status = 200,
                                       !.exists = exists, !.listed = loom_health_systems])
    /\ UNCHANGED <<live, prevDebug>>

(* GET /api/loom/systems: the catalog. *)
list_systems(r) ==
    /\ pc[r] = "pending"
    /\ LoopFree
    /\ Responded(r, [NoFrame EXCEPT !.rid = r, !.ep = "loom_systems", !.status = 200,
                                    !.catalog = systems])
    /\ UNCHANGED <<live, prevDebug>>

(* One subprocess.run of a diagnostic handler, from call to return: the    *)
(* child is started, exits or is killed at the timeout, and is reaped      *)
(* before the call returns or raises.                                      *)
ProbeResults(results) == results \cup {FileNotFoundError}
Probed(frame, result, script) ==
    [Called(frame, result.kind # "FileNotFoundError", script) EXCEPT
        !.result = result, !.killed = (result.kind = "TimeoutExpired"), !.pipes = {}]

(* GET /api/iris/test *)
iris_test(r) ==
    /\ pc[r] = "pending"
    /\ LoopFree
    /\ \E result \in ProbeResults(VersionResults) :
          Responded(r, [Probed([NoFrame EXCEPT !.rid = r, !.ep = "iris_test"],
                               result, FALSE)
                          EXCEPT !.status = 200, !.report = test_r_availability(result)])
    /\ UNCHANGED <<live, prevDebug>>

(* GET /api/iris/debug, up to the first subprocess.run *)
debug_iris_pipeline(r) ==
    /\ pc[r] = "pending"
    /\ LoopFree
    /\ \E exists \in BOOLEAN :
          cur' = [NoFrame EXCEPT !.rid = r, !.ep = "iris_debug", !.stage = "debug_r",
                                 !.exists = exists,
                                 !.report = debug_check_script(exists)]
    /\ pc' = [pc EXCEPT ![r] = "active"]
    /\ UNCHANGED <<responses, live, prevDebug>>

DebugCheckR ==
    /\ cur.stage = "debug_r"
    /\ \E result \in ProbeResults(VersionResults) :
          cur' = [Probed(cur, result, FALSE) EXCEPT
                     !.stage = "debug_jsonlite",
                     !.report = debug_check_r(cur.report, result)]
    /\ UNCHANGED <<pc, responses, live, prevDebug>>

DebugCheckJsonlite ==
    /\ cur.stage = "debug_jsonlite"
    /\ \E result \in ProbeResults(JsonliteResults) :
          cur' = [Probed(cur, result, FALSE) EXCEPT
                     !.stage = "debug_trial",
                     !.report = debug_check_jsonlite(cur.report, result)]
    /\ UNCHANGED <<pc, responses, live, prevDebug>>

ChecksOf(d) ==
    <<d.r_script_exists, d.r_installed, d.jsonlite_installed, d.test_execution_success>>

DebugRespond(frame, d) ==
    /\ Responded(frame.rid, [frame EXCEPT !.status = 200, !.report = debug_overall(d)])
    /\ prevDebug' = [seen |-> TRUE, checks |-> ChecksOf(d),
                     ready |-> debug_overall(d).pipeline_ready]

DebugTrial ==
    /\ cur.stage = "debug_trial"
    /\ debug_runs_trial(cur.report)
    /\ \E result \in ProbeResults(TrialResults) :
          DebugRespond(Probed(cur, result, TRUE), debug_trial(cur.report, result))
    /\ UNCHANGED live

DebugNoTrial ==
    /\ cur.stage = "debug_trial"
    /\ ~debug_runs_trial(cur.report)
    /\ DebugRespond(cur, debug_no_trial(cur.report))
    /\ UNCHANGED live

Next ==
    \/ \E r \in Req : Arrive(r)
    \/ \E r \in Req : get_iris_data(r)
    \/ \E r \in Req : analyze_spectrum(r)
    \/ \E r \in Req : demo_spectrum(r)
    \/ \E r \in Req : generate_loom(r)
    \/ \E r \in Req : demo_loom(r)
    \/ ChildExits
    \/ ChildTimesOut
    \/ DataFinish
    \/ \E r \in Req : health(r)
    \/ \E r \in Req : loom_health(r)
    \/ \E r \in Req : list_systems(r)
    \/ \E r \in Req : iris_test(r)
    \/ \E r \in Req : debug_iris_pipeline(r)
    \/ DebugCheckR
    \/ DebugCheckJsonlite
    \/ DebugTrial
    \/ DebugNoTrial

Spec == Init /\ [][Next]_vars

----------------------------------------------------------------------------
(* Properties.  Answered: the handler of cur has produced its response.    *)

Answered == cur.stage = "responded"
Supplied(f) == ~IsNone(f)
LongEnough(f) == IsNone(f) \/ Len(The(f)) >= MinSeriesLen
ExitedZero == cur.result.kind = "completed" /\ cur.result.returncode = 0
Parsed == json_loads(cur.result.stdout)
Fragments == Range(cur.detail)

(* C1 as stated: every analyze request with a 'series' of at least 4       *)
(* elements makes exactly one subprocess.run call, and when the child      *)
(* exits zero with JSON on its standard output the response is 200 with    *)
(* the parsed output as its body.                                          *)
C1_PassThroughAsStated ==
    (Answered /\ cur.ep = "spectrum_analyze"
       /\ Supplied(cur.body.series) /\ LongEnough(cur.body.series))
    => /\ cur.calls = 1
       /\ (ExitedZero /\ Parsed.ok) => (cur.status = 200 /\ cur.content = Parsed.data)

(* C1, amended: an analyze request with a 'series' of at least 4 elements, *)
(* no shorter series1 or series2, and the script file in place makes       *)
(* exactly one subprocess.run call; when the child exits zero with a JSON  *)
(* document that is no in-band error object the response is 200 and its    *)
(* body is the parsed output; no other outcome answers 200.                *)
C1_PassThrough ==
    (Answered /\ cur.ep = "spectrum_analyze" /\ cur.exists
       /\ Supplied(cur.body.series) /\ LongEnough(cur.body.series)
       /\ LongEnough(cur.body.series1) /\ LongEnough(cur.body.series2))
    => /\ cur.calls = 1
       /\ (ExitedZero /\ IsJsonText(cur.result.stdout) /\ ~IsInbandError(Parsed.data))
            => (cur.status = 200 /\ cur.content = Parsed.data)
       /\ cur.status = 200 => (ExitedZero /\ cur.content = Parsed.data)

C1_Witness ==
    /\ Answered /\ cur.ep = "spectrum_analyze" /\ cur.exists
    /\ cur.body.series = Some(SeriesOfLen(MinSeriesLen))
    /\ cur.calls = 1 /\ cur.result = Completed(0, OutErrFalse, EmptyText)
    /\ cur.status = 200 /\ cur.content = JDict("false", Some("boom"))

(* C2 as stated: an analyze request in which a supplied sequence has fewer *)
(* than 4 elements is answered 400 with no subprocess.run call, whether or *)
(* not the script file exists.                                             *)
C2_ShortSeriesRejected ==
    (Answered /\ cur.ep = "spectrum_analyze"
       /\ (~LongEnough(cur.body.series) \/ ~LongEnough(cur.body.series1)
             \/ ~LongEnough(cur.body.series2)))
    => (cur.status = 400 /\ cur.calls = 0)

(* C3 as stated: a generate request whose system is not one of the four    *)
(* known ones is answered 400 with no subprocess.run call, whether or not  *)
(* the script file exists.                                                 *)
C3_UnknownSystemRejected ==
    (Answered /\ cur.ep = "loom_generate"
       /\ cur.body.system \notin {"lorenz", "automaton", "fibonacci", "clifford"})
    => (cur.status = 400 /\ cur.calls = 0)

(* Whether a text taken from the child's output is part of the response. *)
FromOutput(t) ==
    \/ (Truthy(cur.result.stdout) /\ t.s = cur.result.stdout.s)
    \/ (Truthy(cur.result.stderr) /\ t.s = cur.result.stderr.s)
OutputInResponse == \E t \in Fragments : FromOutput(t)

(* C4: at every data-producing endpoint, when the child outlives the       *)
(* timeout it has been killed and reaped as soon as subprocess.run raises, *)
(* so before the response, which is 504 and carries nothing the child      *)
(* wrote.                                                                  *)
C4_TimeoutIs504 ==
    (cur.ep \in DataEndpoints /\ cur.result.kind = "TimeoutExpired")
    => /\ cur.killed /\ cur.child \notin live
       /\ Answered => /\ cur.status = 504
                      /\ cur.content = NoJson
                      /\ ~OutputInResponse

C4_Witness ==
    /\ Answered /\ cur.ep = "loom_demo"
    /\ cur.result = TimeoutExpired(OutObj, EmptyText)
    /\ cur.status = 504 /\ cur.killed

ParseFailure == ExitedZero /\ ~Parsed.ok
CitesParseFailure ==
    /\ Lit("Failed to parse R output as JSON: ") \in Fragments
    /\ Parsed.reason \in Fragments
PreviewOf(ep) ==
    CASE ep = "iris_data" -> <<Slice(cur.result.stdout, IrisPreviewLen)>>
      [] ep \in {"spectrum_analyze", "loom_generate"} -> <<Slice(cur.result.stdout, PreviewLen)>>
      [] OTHER -> <<>>

C6_InbandErrorIs500 ==
    (Answered /\ cur.ep \in DataEndpoints /\ ExitedZero /\ Parsed.ok
       /\ IsInbandError(Parsed.data))
    => /\ cur.status = 500
       /\ MessageOf(Parsed.data) \in Fragments

AllFourChecks(d) ==
    d.r_script_exists /\ d.r_installed /\ d.jsonlite_installed /\ d.test_execution_success

(* A debug handler answers in this step. *)
DebugAnswers == cur.stage # "responded" /\ cur'.stage = "responded" /\ cur'.ep = "iris_debug"

(* C7: in every /api/iris/debug report pipeline_ready is true exactly when *)
(* the four checks of the report are all true (the script exists, R is     *)
(* installed, jsonlite loads, the trial run succeeds), the report says     *)
(* what the handler saw of the script, and a report whose four checks came *)
(* out as in the previous report carries the same flag.                    *)
C7_ReadyIffAllChecks ==
    (Answered /\ cur.ep = "iris_debug")
    => /\ cur.report.pipeline_ready <=> AllFourChecks(cur.report)
       /\ cur.report.r_script_exists <=> cur.exists
       /\ cur.report.test_execution_success
            => (cur.result.kind = "completed" /\ cur.result.returncode = 0
                  /\ cur.dataRuns = 1)
C7_SameChecksSameFlag ==
    (DebugAnswers /\ prevDebug.seen /\ prevDebug.checks = ChecksOf(cur'.report))
    => (cur'.report.pipeline_ready <=> prevDebug.ready)
C7_PipelineReady == [](C7_ReadyIffAllChecks) /\ [][C7_SameChecksSameFlag]_vars

C7_Witness ==
    /\ Answered /\ cur.ep = "iris_debug" /\ cur.rid = 2
    /\ cur.report.pipeline_ready /\ AllFourChecks(cur.report)
    /\ cur.report.checks = <<"script_exists", "version_probe", "jsonlite_probe",
                             "trial_execution">>
    /\ cur.result = Completed(0, OutNotJson, EmptyText)

(* Whether the request of cur passes the input validation of its endpoint. *)
PassesValidation ==
    CASE cur.ep = "spectrum_analyze" ->
           /\ Supplied(cur.body.series)
                \/ (Supplied(cur.body.series1) /\ Supplied(cur.body.series2))
           /\ LongEnough(cur.body.series) /\ LongEnough(cur.body.series1)
           /\ LongEnough(cur.body.series2)
      [] cur.ep = "loom_generate" ->
           cur.body.system \in {"lorenz", "automaton", "fibonacci", "clifford"}
      [] OTHER -> TRUE

(* C8 as stated: a data-producing request that passes validation ends with *)
(* the first of these that applies: script absent -> 500 and no child;     *)
(* Rscript not found -> 500; timeout -> 504; non-zero exit -> 500 with the *)
(* standard error text (or the fallback), whatever standard output holds;  *)
(* output not JSON -> 500; in-band error object -> 500; otherwise 200.     *)
C8_FirstMatchWins ==
    (Answered /\ cur.ep \in DataEndpoints /\ PassesValidation)
    => CASE ~cur.exists -> cur.status = 500 /\ cur.calls = 0 /\ cur.spawned = 0
         [] cur.exists /\ cur.result.kind = "FileNotFoundError" ->
              cur.status = 500 /\ cur.spawned = 0
         [] cur.exists /\ cur.result.kind = "TimeoutExpired" -> cur.status = 504
         [] cur.exists /\ cur.result.kind = "completed" /\ cur.result.returncode # 0 ->
              cur.status = 500 /\ ErrorMsg(cur.result) \in Fragments
         [] cur.exists /\ ExitedZero /\ ~IsJsonText(cur.result.stdout) ->
              cur.status = 500
         [] cur.exists /\ ExitedZero /\ IsJsonText(cur.result.stdout)
              /\ IsInbandError(Parsed.data) -> cur.status = 500
         [] OTHER -> cur.status = 200 /\ cur.content = Parsed.data

(* C9 as stated: while one request waits for its child, any other request  *)
(* that has arrived can be taken up and answered.                          *)
C9_WaitDoesNotBlock ==
    \A r \in Req : (cur.stage = "waiting" /\ pc[r] = "pending") => ENABLED health(r)

(* C10: every request gets at most one response and exactly one once it is *)
(* done; its handler starts at most one child on a data script and, at a   *)
(* data-producing endpoint, calls subprocess.run at most once whatever the *)
(* outcome; every child alive is the one the running handler started for   *)
(* its own request.                                                        *)
C10_OneRunOneResponse ==
    /\ \A r \in Req : /\ responses[r] <= 1
                      /\ pc[r] = "done" <=> responses[r] = 1
    /\ cur.dataRuns <= 1
    /\ cur.ep \in DataEndpoints => (cur.calls <= 1 /\ cur.spawned <= 1)
    /\ \A c \in live : c = cur.child /\ c[1] = cur.rid /\ pc[c[1]] = "active"
    /\ Answered => live = {}

C10_Witness ==
    /\ pc[1] = "done" /\ responses[1] = 1
    /\ Answered /\ cur.rid = 2 /\ cur.ep = "loom_generate"
    /\ cur.result = Completed(1, EmptyText, ErrText)
    /\ cur.status = 500 /\ cur.dataRuns = 1 /\ responses[2] = 1

(* C11: a handler that has started a child answers only once that child is *)
(* reaped and the pipes to it are closed, on every path (200, non-zero     *)
(* exit, parse failure, in-band error, timeout, unexpected exception): as  *)
(* soon as subprocess.run has returned or raised, the child is gone and    *)
(* no pipe is open; no request that is done has a child alive.             *)
C11_ReapedBeforeResponse ==
    /\ (cur.stage \in {"returned", "responded"} /\ cur.spawned > 0)
         => (cur.child \notin live /\ cur.pipes = {})
    /\ Answered => (live = {} /\ cur.pipes = {})
    /\ \A c \in live : pc[c[1]] # "done"
    /\ cur.ep \notin DataEndpoints => live = {}

C11_Witness ==
    /\ Answered /\ cur.ep = "spectrum_analyze" /\ cur.spawned = 1
    /\ cur.result = Completed(0, OutNaN, EmptyText)
    /\ cur.status = 500
    /\ Lit("Unexpected error during spectral analysis: ") \in Fragments
    /\ live = {} /\ cur.pipes = {}

(* The constraint of the analyze validator that the request of cur breaks  *)
(* first, by the message that names it ("" when it breaks none).           *)
FirstViolation ==
    CASE ~(Supplied(cur.body.series)
             \/ (Supplied(cur.body.series1) /\ Supplied(cur.body.series2))) ->
           "Must provide either 'series' or both 'series1' and 'series2'"
      [] ~LongEnough(cur.body.series) ->
           "Series must contain at least 4 data points for FFT"
      [] ~LongEnough(cur.body.series1) ->
           "Series1 must contain at least 4 data points for FFT"
      [] ~LongEnough(cur.body.series2) ->
           "Series2 must contain at least 4 data points for FFT"
      [] OTHER -> ""

(* C12 as stated: an analyze request passes validation exactly when        *)
(* 'series' or both 'series1' and 'series2' are supplied and every         *)
(* supplied sequence has at least 4 elements; every other request is       *)
(* answered 400 with no subprocess.run call and a detail that names the    *)
(* first constraint broken, in the order: neither form, series, series1,   *)
(* series2; a request that passes is never answered 400.                   *)
C12_ValidationIffWellFormed ==
    (Answered /\ cur.ep = "spectrum_analyze")
    => /\ (FirstViolation = "") <=> PassesValidation
       /\ IF PassesValidation
            THEN cur.status # 400
            ELSE /\ cur.status = 400
                 /\ cur.calls = 0
                 /\ cur.detail = <<Lit(FirstViolation)>>

(* C13: /api/iris/test and /api/iris/debug answer 200 whatever fails (the  *)
(* script is absent, Rscript is not found, a probe exits non-zero or times *)
(* out, jsonlite does not load, the trial run fails or times out), and the *)
(* report describes the failure: r_available and r_installed are true only *)
(* after a version probe that exited zero, so false when Rscript is        *)
(* absent; jsonlite_installed is true only after a probe that exited zero; *)
(* a report without a successful trial run carries test_error.             *)
C13_DiagnosticsNeverFail ==
    /\ (Answered /\ cur.ep = "iris_test")
         => /\ cur.status = 200
            /\ {"r_available", "version", "status"} \subseteq cur.report.keys
            /\ cur.report.r_available <=> ExitedZero
            /\ cur.report.r_available <=> (cur.report.status = "R engine operational")
            /\ cur.report.r_available <=> ~IsNone(cur.report.version)
            /\ cur.result.kind = "FileNotFoundError"
                 => cur.report.status = "Rscript command not found - R may not be installed"
    /\ (cur.ep = "iris_debug" /\ cur.stage = "debug_jsonlite")
         => /\ cur.report.r_installed <=> ExitedZero
            /\ cur.report.r_installed <=> ~IsNone(cur.report.r_version)
            /\ cur.result.kind = "TimeoutExpired" <=> "r_check_error" \in cur.report.keys
    /\ (cur.ep = "iris_debug" /\ cur.stage = "debug_trial")
         => /\ cur.report.jsonlite_installed => ExitedZero
            /\ cur.result.kind # "completed" <=> "jsonlite_check_error" \in cur.report.keys
    /\ (Answered /\ cur.ep = "iris_debug")
         => /\ cur.status = 200
            /\ {"r_script_exists", "r_installed", "r_version", "jsonlite_installed",
                 "test_execution_success", "pipeline_ready"} \subseteq cur.report.keys
            /\ ~cur.report.r_installed => (cur.dataRuns = 0 /\ ~cur.report.pipeline_ready)
            /\ ~cur.report.test_execution_success
                 => ("test_error" \in cur.report.keys /\ ~IsNone(cur.report.test_error))

C13_Witness ==
    /\ Answered /\ cur.ep = "iris_debug" /\ cur.status = 200
    /\ ~cur.exists /\ ~cur.report.r_script_exists
    /\ ~cur.report.r_installed /\ "r_check_error" \notin cur.report.keys
    /\ cur.result.kind = "TimeoutExpired" /\ "jsonlite_check_error" \in cur.report.keys
    /\ cur.report.test_error
         = Some(Lit("Cannot test - script doesn't exist or R not installed"))
    /\ cur.calls = 2

CatalogIds == {cur.catalog[i].id : i \in DOMAIN cur.catalog}
KnownSystems == {"lorenz", "automaton", "fibonacci", "clifford"}

(* C14: /api/loom/systems answers four catalog entries whose ids are       *)
(* lorenz, automaton, fibonacci and clifford, and in every parameter of    *)
(* every entry min <= default <= max; /api/loom/health lists the same four *)
(* ids; and /api/loom/generate, once past the script check, rejects a      *)
(* request with 400 exactly when its system is not one of them.            *)
C14_CatalogOfFour ==
    /\ (Answered /\ cur.ep = "loom_systems")
         => /\ cur.status = 200
            /\ Len(cur.catalog) = Cardinality(KnownSystems)
            /\ CatalogIds = KnownSystems
            /\ \A i \in DOMAIN cur.catalog : \A p \in DOMAIN cur.catalog[i].params :
                  /\ cur.catalog[i].params[p].min <= cur.catalog[i].params[p].default
                  /\ cur.catalog[i].params[p].default <= cur.catalog[i].params[p].max
    /\ (Answered /\ cur.ep = "loom_health")
         => (cur.status = 200 /\ Range(cur.listed) = KnownSystems)
    /\ (Answered /\ cur.ep = "loom_generate" /\ cur.exists)
         => (cur.status = 400 <=> cur.body.system \notin KnownSystems)

C14_Witness ==
    /\ Answered /\ cur.ep = "loom_systems" /\ cur.rid = 2
    /\ Len(cur.catalog) = 4
    /\ cur.catalog[4].id = "clifford"
    /\ cur.catalog[4].params.a.default < 0
    /\ cur.catalog[1].params.dt.min < cur.catalog[1].params.dt.default

FirstThreeChecks == <<"script_exists", "version_probe", "jsonlite_probe">>
TrialRan == "trial_execution" \in Range(cur.report.checks)

(* C15 as stated: every /api/iris/debug call carries out the four checks   *)
(* in order, the trial run of the script included, whatever the first      *)
(* three found.                                                            *)
C15_AllFourChecksAlways ==
    (Answered /\ cur.ep = "iris_debug")
    => /\ cur.report.checks = Append(FirstThreeChecks, "trial_execution")
       /\ cur.dataRuns = 1

(* C15, amended: every /api/iris/debug call checks the script file, probes *)
(* Rscript and probes jsonlite, in that order; the trial run comes fourth  *)
(* and is made exactly when the script exists and the Rscript probe        *)
(* succeeded, whatever the jsonlite probe found, and then a zero exit has  *)
(* its output tested for JSON; otherwise no script is run and the report   *)
(* says that the test could not be made.                                   *)
C15_TrialOnlyWhenRunnable ==
    /\ (cur.ep = "iris_debug" /\ cur.stage = "debug_r")
         => (cur.report.checks = SubSeq(FirstThreeChecks, 1, 1) /\ cur.calls = 0)
    /\ (cur.ep = "iris_debug" /\ cur.stage = "debug_jsonlite")
         => (cur.report.checks = SubSeq(FirstThreeChecks, 1, 2) /\ cur.calls = 1)
    /\ (cur.ep = "iris_debug" /\ cur.stage = "debug_trial")
         => (cur.report.checks = FirstThreeChecks /\ cur.calls = 2)
    /\ (Answered /\ cur.ep = "iris_debug")
         => /\ TrialRan <=> (cur.report.r_script_exists /\ cur.report.r_installed)
            /\ IF TrialRan
                 THEN /\ cur.report.checks = Append(FirstThreeChecks, "trial_execution")
                      /\ cur.calls = 3
                      /\ cur.dataRuns = (IF cur.result.kind = "FileNotFoundError" THEN 0 ELSE 1)
                      /\ cur.report.test_execution_success <=> ExitedZero
                      /\ ExitedZero
                           => /\ "test_output_valid_json" \in cur.report.keys
                              /\ cur.report.test_output_valid_json <=> Parsed.ok
                 ELSE /\ cur.report.checks = FirstThreeChecks
                      /\ cur.calls = 2 /\ cur.dataRuns = 0
                      /\ ~cur.report.test_execution_success
                      /\ "test_output_valid_json" \notin cur.report.keys
                      /\ cur.report.test_error
                           = Some(Lit("Cannot test - script doesn't exist or R not installed"))

C15_Witness ==
    /\ Answered /\ cur.ep = "iris_debug"
    /\ cur.report.r_script_exists /\ cur.report.r_installed
    /\ ~cur.report.jsonlite_installed
    /\ TrialRan /\ cur.dataRuns = 1
    /\ cur.result = Completed(0, OutLongObj, EmptyText)
    /\ cur.report.test_output_valid_json
    /\ ~cur.report.pipeline_ready

(* The number a numeric text stands for, in thousandths. *)
NumberOf(text) ==
    CASE text \in {"1.0", "1"} -> 1000
      [] text \in {"2.0", "2"} -> 2000
      [] text \in {"3.0", "3"} -> 3000
      [] text \in {"8.0", "8"} -> 8000
      [] text \in {"44100.0", "44100"} -> 44100000
      [] OTHER -> -1
IsNumber(o) == (~IsNone(o)) /\ NumberOf(The(o)) >= 0

(* The handler of cur has built its payload and called subprocess.run.     *)
WrotePayload == cur.ep \in {"spectrum_analyze", "loom_generate"} /\ cur.calls = 1
SeriesKeys == {"series", "series1", "series2"}
PayloadCarriesSeries ==
    /\ The(cur.input).keys
         = {k \in SeriesKeys : Supplied(cur.body[k])} \cup {"sample_rate", "n_peaks"}
    /\ \A k \in SeriesKeys : The(cur.input)[k] = cur.body[k]
PayloadCarriesLoom ==
    /\ The(cur.input).keys = {"system", "params"}
    /\ The(cur.input).system = cur.body.system
    /\ The(cur.input).params
         = (IF cur.body.params \in {"absent", "null"} THEN "{}" ELSE cur.body.params)

(* C16 as stated: the payload of spectrum/analyze holds exactly the series *)
(* keys the client supplied, unchanged, and sample_rate and n_peaks, which *)
(* are always numbers, 1.0 and 8 when the client gave no value and the     *)
(* client's number otherwise; the payload of loom/generate holds 'system'  *)
(* and 'params', the client's mapping or an empty one.                     *)
C16_PayloadAsStated ==
    /\ (WrotePayload /\ cur.ep = "spectrum_analyze")
         => /\ PayloadCarriesSeries
            /\ IsNumber(The(cur.input).sample_rate) /\ IsNumber(The(cur.input).n_peaks)
            /\ cur.body.sample_rate \in {"absent", "null"}
                 => NumberOf(The(The(cur.input).sample_rate)) = NumberOf("1.0")
            /\ cur.body.n_peaks \in {"absent", "null"}
                 => NumberOf(The(The(cur.input).n_peaks)) = NumberOf("8")
            /\ cur.body.sample_rate \notin {"absent", "null"}
                 => NumberOf(The(The(cur.input).sample_rate)) = NumberOf(cur.body.sample_rate)
            /\ cur.body.n_peaks \notin {"absent", "null"}
                 => NumberOf(The(The(cur.input).n_peaks)) = NumberOf(cur.body.n_peaks)
    /\ (WrotePayload /\ cur.ep = "loom_generate") => PayloadCarriesLoom

(* What the payload holds for sample_rate or n_peaks, given what the       *)
(* client wrote: the default for a field left out, null for an explicit    *)
(* null, and otherwise a number equal to the client's.                     *)
CarriesOption(written, given, default) ==
    CASE given = "absent" -> written = Some(default)
      [] given = "null" -> IsNone(written)
      [] OTHER -> IsNumber(written) /\ NumberOf(The(written)) = NumberOf(given)

(* C16, amended: as stated, except that sample_rate and n_peaks are 1.0    *)
(* and 8 only when the client left the field out; an explicit null is      *)
(* written to the payload as null.                                         *)
C16_PayloadPassThrough ==
    /\ (WrotePayload /\ cur.ep = "spectrum_analyze")
         => /\ PayloadCarriesSeries
            /\ CarriesOption(The(cur.input).sample_rate, cur.body.sample_rate, "1.0")
            /\ CarriesOption(The(cur.input).n_peaks, cur.body.n_peaks, "8")
    /\ (WrotePayload /\ cur.ep = "loom_generate") => PayloadCarriesLoom
    /\ (cur.ep \in DataEndpoints /\ ~WrotePayload) => IsNone(cur.input)

C16_Witness ==
    /\ Answered /\ cur.ep = "spectrum_analyze" /\ cur.status = 200 /\ cur.calls = 1
    /\ IsNone(cur.body.series) /\ Supplied(cur.body.series1) /\ Supplied(cur.body.series2)
    /\ cur.body.sample_rate = "null" /\ cur.body.n_peaks = "null"
    /\ The(cur.input).keys = {"series1", "series2", "sample_rate", "n_peaks"}
    /\ IsNone(The(cur.input).sample_rate) /\ IsNone(The(cur.input).n_peaks)

UnexpectedPrefix(ep) ==
    CASE ep = "iris_data" -> "Unexpected error during iris transformation: "
      [] ep = "spectrum_analyze" -> "Unexpected error during spectral analysis: "
      [] ep = "spectrum_demo" -> "Unexpected error during demo analysis: "
      [] ep = "loom_generate" -> "Unexpected error during loom generation: "
      [] ep = "loom_demo" -> "Unexpected error during demo generation: "
      [] OTHER -> ""

(* The response of cur is an "Unexpected error ..." fault. *)
Rewrapped == Len(cur.detail) >= 1 /\ cur.detail[1] = Lit(UnexpectedPrefix(cur.ep))

(* The try block of the handler of cur raised an HTTPException: after a    *)
(* non-zero exit, a parse failure, or (where the handler tests for it) an  *)
(* in-band error object.                                                   *)
RaisedInTry ==
    /\ cur.calls = 1 /\ cur.result.kind = "completed"
    /\ \/ cur.result.returncode # 0
       \/ ~Parsed.ok
       \/ (cur.ep \in {"spectrum_analyze", "loom_generate"} /\ IsInbandError(Parsed.data))
RaisedDetails ==
    {Lit("R script execution failed: "), Lit("Failed to parse R output as JSON: "),
     Lit("R script error: ")}

(* C17: at every data-producing endpoint an HTTPException raised inside    *)
(* the try block (non-zero exit, parse failure, in-band error) is caught   *)
(* by 'except Exception' and answered as an "Unexpected error ..." fault   *)
(* that embeds the first one; its status is 500, and every "Unexpected     *)
(* error ..." response is a 500.  The 400 of the validation and the 500 of *)
(* the missing script, raised before the try block, and the 504 of the     *)
(* timeout are answered as raised.                                         *)
C17_RewrappedAs500 ==
    (Answered /\ cur.ep \in DataEndpoints)
    => /\ RaisedInTry
            => /\ cur.status = 500 /\ Rewrapped
               /\ Len(cur.detail) >= 3
               /\ cur.detail[2] = Lit("500: ")
               /\ cur.detail[3] \in RaisedDetails
       /\ Rewrapped => (cur.status = 500 /\ cur.calls = 1)
       /\ cur.status \in {400, 504} => ~Rewrapped
       /\ cur.status = 400 => (cur.calls = 0 /\ Len(cur.detail) = 1)
       /\ ~cur.exists
            => /\ cur.status = 500 /\ cur.calls = 0
               /\ cur.detail[1] = Lit("R script not found at ")
       /\ cur.result.kind = "TimeoutExpired"
            => /\ cur.status = 504
               /\ cur.detail = <<Lit("R script execution timed out after 30 seconds")>>

C17_Witness ==
    /\ Answered /\ cur.ep = "loom_generate"
    /\ cur.result = Completed(0, OutErrMsg, EmptyText)
    /\ cur.status = 500
    /\ cur.detail = <<Lit("Unexpected error during loom generation: "), Lit("500: "),
                      Lit("R script error: "), Lit("boom")>>

====
